---- MODULE Spec2Model ----
(***************************************************************************)
(* Model of the lead personalisation pipeline of src/main.py:              *)
(* SheetsManager (read_leads, write_personalization), ReviewFetcher,       *)
(* AIAgentManager (summarize_reviews, generate_personalized_message) and   *)
(* LeadProcessor (enrich_lead_with_reviews, process_lead,                  *)
(* process_multiple_leads).                                                *)
(*                                                                         *)
(* Cells of both worksheets are strings.  Python's None is the string      *)
(* NoneVal, which no cell ever holds.                                      *)
(***************************************************************************)
EXTENDS Integers, Sequences, FiniteSets, TLC

(***************************************************************************)
(* Bounds of the model.                                                    *)
(***************************************************************************)
\* longest source table (data rows) of the general specification
MaxShortLeads == 2
\* longest source table (data rows) of the single-run specification
MaxLongLeads == 6
\* most items the review backend returns for one job in a pipeline run
MaxItems == 1
\* longest review list handed to summarize_reviews on its own
MaxReviewLen == 6
\* write_personalization calls allowed in one behaviour of the general
\* specification (the output table only grows through them)
MaxWrites == 2
MaxPlaces == 2         \* place ids in one fetch_reviews call made on its own
MaxPerLead == 2        \* largest max_reviews a ReviewFetcher is built with there

(***************************************************************************)
(* Program constants.                                                      *)
(***************************************************************************)
\* process_multiple_leads(max_leads=5)
max_leads == 5
\* ReviewFetcher(max_reviews=20)
max_reviews == 20
\* first_five = reviews[:5]
SummaryWindow == 5

NoneVal == "<None>"

\* Python truthiness of an optional string
Falsy(x) == x = NoneVal \/ x = ""

\* Python's `x or d`
OrElse(x, d) == IF Falsy(x) THEN d ELSE x

Min2(a, b) == IF a < b THEN a ELSE b

Max2(a, b) == IF a < b THEN b ELSE a

SetMin(S) == CHOOSE x \in S : \A y \in S : x <= y

SetMax(S) == CHOOSE x \in S : \A y \in S : y <= x

\* Python slice s[a:b] with 0-based a, b
Slice(s, a, b) ==
  LET lo == Min2(a, Len(s))
      hi == Min2(b, Len(s))
  IN  IF hi <= lo THEN << >> ELSE SubSeq(s, lo + 1, hi)

\* str.lower() on the header names the worksheets use
Lower(h) ==
  CASE h = "ID" -> "id"
    [] h = "Id" -> "id"
    [] h = "id" -> "id"
    [] h = "Business" -> "business"
    [] h = "business" -> "business"
    [] h = "Name" -> "name"
    [] h = "Owner" -> "owner"
    [] h = "Key" -> "key"
    [] h = "DM opener" -> "dm opener"
    [] h = "Call Script" -> "call script"
    [] h = "Email Opener" -> "email opener"
    [] h = "Notes" -> "notes"
    [] OTHER -> h

(***************************************************************************)
(* Lead and SheetsManager.read_leads                                       *)
(***************************************************************************)
\* the value read_leads gives field f of one data row
LeadField(headers, row, f) ==
  LET S == {i \in 1..Len(headers) : Lower(headers[i]) = f}
  IN  IF S = {} THEN NoneVal
      ELSE LET i == SetMax(S)
               v == IF i <= Len(row) THEN row[i] ELSE ""
           IN  IF v = "" THEN NoneVal ELSE v

MkLead(headers, row) ==
  [id |-> LeadField(headers, row, "id"),
   business |-> LeadField(headers, row, "business"),
   owner_name |-> LeadField(headers, row, "owner_name"),
   review_summary |-> LeadField(headers, row, "review_summary")]

\* variant: the header row is taken for a lead too
ReadLeadsWithHeader(all_values) ==
  [k \in 1..Len(all_values) |-> MkLead(all_values[1], all_values[k])]

ReadLeads(all_values) ==
  IF all_values = << >> THEN << >>
  ELSE [k \in 1..(Len(all_values) - 1) |->
          MkLead(all_values[1], all_values[k + 1])]

(***************************************************************************)
(* ReviewFetcher.fetch_reviews: items is the flat stream of review texts   *)
(* the backend's dataset yields; the result is one slice per place id.     *)
(***************************************************************************)
FetchReviews(place_ids, items, maxr) ==
  [i \in 1..Len(place_ids) |-> Slice(items, (i - 1) * maxr, (i - 1) * maxr + maxr)]

\* variant: an empty place_ids list is passed on to the backend
RejectsEmptyNever(place_ids) == FALSE

\* if not place_ids: raise ValueError("place_ids cannot be empty")
RejectsEmpty(place_ids) == place_ids = << >>

(***************************************************************************)
(* AIAgentManager.summarize_reviews                                        *)
(***************************************************************************)
\* variant: the snippets are built from every review, not the first five
ReviewTextsAll(reviews) ==
  {i \in 1..Len(reviews) : OrElse(reviews[i], "") # ""}

\* the snippets built from the first five reviews
ReviewTexts(reviews) ==
  LET first_five == Slice(reviews, 0, SummaryWindow)
  IN  {i \in 1..Len(first_five) : OrElse(first_five[i], "") # ""}

SentinelSummary == [owner_name |-> "Unknown", review_summary |-> "No reviews available"]

\* summarize_reviews calls the review agent exactly when a snippet remains
SummarizeCalls(reviews) == ReviewTexts(reviews) # {}

(***************************************************************************)
(* AIAgentManager.generate_personalized_message: the profile in the prompt *)
(***************************************************************************)
LeadInfo(lead) ==
  [business |-> OrElse(lead.business, "Unknown"),
   owner_name |-> OrElse(lead.owner_name, "Unknown"),
   review_summary |-> OrElse(lead.review_summary, "No reviews available")]

(***************************************************************************)
(* SheetsManager.write_personalization                                     *)
(***************************************************************************)
OutHeaders == <<"ID", "Name", "Owner", "DM opener", "Call Script", "Email Opener", "Notes">>

\* 1-based index of the identifier column
IdCol(headers) ==
  LET S == {i \in 1..Len(headers) : Lower(headers[i]) = "id"}
  IN  IF S = {} THEN 1 ELSE SetMin(S)

\* variant: the scan matches the first data row whatever its identifier
ExistingRowAny(all_values, id) ==
  IF Len(all_values) >= 2 THEN 2 ELSE 0

\* sheet row number of the first data row holding the id, 0 for None
ExistingRow(all_values, id) ==
  LET c == IdCol(all_values[1])
      S == {r \in 2..Len(all_values) :
              /\ all_values[r] # << >>
              /\ Len(all_values[r]) >= c
              /\ all_values[r][c] = id}
  IN  IF S = {} THEN 0 ELSE SetMin(S)

MkPersonalization(lead, business_name, dm) ==
  [id |-> OrElse(lead.id, ""),
   name |-> business_name,
   owner |-> OrElse(lead.owner_name, ""),
   dm_opener |-> dm,
   call_script |-> NoneVal,
   email_opener |-> NoneVal,
   notes |-> NoneVal]

RowData(p) ==
  <<p.id, p.name, p.owner, p.dm_opener,
    OrElse(p.call_script, ""), OrElse(p.email_opener, ""), OrElse(p.notes, "")>>

\* variant: the cells are written one sheet row too high
UpdateCellsRowAbove(tbl, r, row_data, k) ==
  [tbl EXCEPT ![r - 1] =
     [c \in 1..Max2(Len(tbl[r - 1]), k) |->
        IF c <= k THEN row_data[c] ELSE tbl[r - 1][c]]]

\* worksheet after update_cell(r, 1..k, row_data[1..k])
UpdateCells(tbl, r, row_data, k) ==
  [tbl EXCEPT ![r] =
     [c \in 1..Max2(Len(tbl[r]), k) |-> IF c <= k THEN row_data[c] ELSE tbl[r][c]]]

\* variant: the header row is appended on every call
WithHeadersAlways(tbl) == Append(tbl, OutHeaders)

\* worksheet after the header step of write_personalization
WithHeaders(tbl) == IF tbl = << >> THEN <<OutHeaders>> ELSE tbl

\* worksheet after a write_personalization that returns
WritePersonalization(tbl, p) ==
  LET all_values == WithHeaders(tbl)
      existing_row == ExistingRow(all_values, p.id)
  IN  IF existing_row # 0
      THEN UpdateCells(all_values, existing_row, RowData(p), Len(RowData(p)))
      ELSE Append(all_values, RowData(p))

\* worksheets a write_personalization can leave behind when a table-backend
\* call raises: at the read, at the header append, at the row append, or at
\* one of the update_cell calls
WriteFailures(tbl, p) ==
  LET all_values == WithHeaders(tbl)
      existing_row == ExistingRow(all_values, p.id)
  IN  {tbl, all_values} \cup
      (IF existing_row # 0
       THEN {UpdateCells(all_values, existing_row, RowData(p), k) :
               k \in 0..(Len(RowData(p)) - 1)}
       ELSE {})

(***************************************************************************)
(* The output worksheet as a keyed table                                   *)
(***************************************************************************)
\* sheet rows of the data rows whose identifier-column cell is i
RowsWithId(tbl, i) ==
  IF tbl = << >> THEN {}
  ELSE {r \in 2..Len(tbl) : Len(tbl[r]) >= IdCol(tbl[1]) /\ tbl[r][IdCol(tbl[1])] = i}

\* the identifiers present in the identifier column
ProcessedIds(tbl) ==
  IF tbl = << >> THEN {}
  ELSE {tbl[r][IdCol(tbl[1])] : r \in {q \in 2..Len(tbl) : Len(tbl[q]) >= IdCol(tbl[1])}}

(***************************************************************************)
(* Inputs: the worksheets and what the backends return.                    *)
(***************************************************************************)
SeqsUpTo(S, n) == UNION {[1..k -> S] : k \in 0..n}

SrcHeaders == <<"ID", "Business">>

\* data rows of the source worksheet: without id, with business, without
LeadRows == {<<"", "Acme">>, <<"A", "Acme">>, <<"B", "">>}

ShortSheets ==
  {<< >>} \cup {<<SrcHeaders>> \o rows : rows \in SeqsUpTo(LeadRows, MaxShortLeads)}

LongId(i) == "L" \o ToString(i)

\* source worksheets whose leads have distinct identifiers: one of exactly
\* max_leads leads and one longer
LongSheets ==
  {<<SrcHeaders>> \o [i \in 1..n |-> <<LongId(i), "">>] : n \in {max_leads, MaxLongLeads}}

\* a header layout with the identifier in the second column
NameFirstHeaders ==
  <<"Name", "ID", "Owner", "DM opener", "Call Script", "Email Opener", "Notes">>

\* header layouts of the output worksheet: the one write_personalization
\* creates, the identifier in the second column, the identifier header in
\* lower case, and no identifier header at all
Layouts ==
  {OutHeaders,
   NameFirstHeaders,
   <<"id", "Name", "Owner", "DM opener", "Call Script", "Email Opener", "Notes">>,
   <<"Key", "Name", "Owner", "DM opener", "Call Script", "Email Opener", "Notes">>}

\* a data row for lead A laid out under the given headers
RowUnder(h) ==
  [c \in 1..Len(h) |->
     IF c = IdCol(h) THEN "A"
     ELSE IF Lower(h[c]) = "name" THEN "Acme"
     ELSE IF Lower(h[c]) = "owner" THEN "Olivia"
     ELSE IF Lower(h[c]) = "dm opener" THEN "dm1"
     ELSE ""]

\* output worksheets a run can start from: without any row, with a header
\* row only, and with lead A already in it
OutTables ==
  {<< >>} \cup {<<h>> : h \in Layouts} \cup
  {<<OutHeaders, RowUnder(OutHeaders)>>}

\* text of a review item: absent, empty, present
Texts == {NoneVal, "", "great"}

\* text of an item of the backend's dataset in a run: null, present
ItemTexts == {NoneVal, "great"}

ItemLists == SeqsUpTo(ItemTexts, MaxItems)

ReviewLists == SeqsUpTo(Texts, MaxReviewLen) \ {<< >>}

\* what the review agent and the personalization agent can return
Summaries == {[owner_name |-> "Olivia", review_summary |-> "Loved it"]}

Openers == {"dm1", "dm2"}

NoLead ==
  [id |-> NoneVal, business |-> NoneVal, owner_name |-> NoneVal, review_summary |-> NoneVal]

NoWrite == << >>

Event(op, k, arg) == [op |-> op, k |-> k, arg |-> arg]

(***************************************************************************)
(* State                                                                   *)
(***************************************************************************)
VARIABLES
  sheet,       \* values of the source worksheet
  out,         \* values of worksheet "outreach_personalisation"
  pc,          \* position of the run
  leads,       \* result of read_leads in this run
  idx,         \* position of the loop over leads[:max_leads]
  enriched,    \* enriched_lead of process_lead
  reviews,     \* reviews of the enrich_lead_with_reviews call that just ended,
               \* dropped when process_lead goes on to the message
  msg,         \* personalized_message.dm_opener
  err,         \* the exception that ended the run, "" for none
  budget,      \* write_personalization calls still allowed
  log,         \* backend calls of this run, in order
  outAtStart,  \* the output worksheet when this run started
  processed,   \* the leads handed to process_lead in this run, in order
  lastW,       \* row_data of the latest write_personalization call of this
               \* run, NoWrite when it raised
  repeated,    \* the latest call returned and the call before it had
               \* returned too, for the same identifier
  fetchArgs,   \* the place_ids lists this run has passed to fetch_reviews
  fx,          \* a fetch_reviews call made on its own: arguments, what the
               \* backend holds, and the outcome
  writers      \* write_personalization calls running side by side

vars == <<sheet, out, pc, leads, idx, enriched, reviews, msg, err, budget, log,
          outAtStart, processed, lastW, repeated, fetchArgs, fx, writers>>

\* no fetch_reviews call on its own
NoFetch == [phase |-> "none"]

\* no write_personalization calls side by side
NoWriters == << >>

\* variant: the loop runs over the leads the output worksheet does not hold
QueueFiltered ==
  SelectSeq(leads, LAMBDA l : l.id # NoneVal /\ l.id \notin ProcessedIds(outAtStart))

\* variant: the loop walks the leads from the last to the first
QueueReversed ==
  Slice([k \in 1..Len(leads) |-> leads[Len(leads) + 1 - k]], 0, max_leads)

\* variant: the loop runs over every lead
QueueUncapped == leads

\* leads[:max_leads]
Queue == Slice(leads, 0, max_leads)

\* the lead process_lead is working on
CurLead == Queue[idx]

InitRun ==
  /\ pc = "idle"
  /\ leads = << >>
  /\ idx = 0
  /\ enriched = NoLead
  /\ reviews = << >>
  /\ msg = NoneVal
  /\ err = ""
  /\ log = << >>
  /\ outAtStart = out
  /\ processed = << >>
  /\ lastW = NoWrite
  /\ repeated = FALSE
  /\ fetchArgs = << >>

Init ==
  /\ sheet \in ShortSheets
  /\ out \in OutTables
  /\ budget = MaxWrites
  /\ InitRun
  /\ fx = NoFetch
  /\ writers = NoWriters

\* one run on a source worksheet longer than max_leads, empty output worksheet
\* source worksheets of exactly two leads
TwoLeadSheets == {<<SrcHeaders, r1, r2>> : r1 \in LeadRows, r2 \in LeadRows}

InitTwoLeads ==
  /\ sheet \in TwoLeadSheets
  /\ out \in OutTables
  /\ budget = MaxWrites
  /\ InitRun
  /\ fx = NoFetch
  /\ writers = NoWriters

InitLong ==
  /\ sheet \in LongSheets
  /\ out = << >>
  /\ budget = max_leads
  /\ InitRun
  /\ fx = NoFetch
  /\ writers = NoWriters

\* a summarize_reviews call handed a review list of any length up to the bound
InitSummarize ==
  /\ sheet = <<SrcHeaders, <<"A", "Acme">>>>
  /\ out = << >>
  /\ budget = 1
  /\ pc = "summarize"
  /\ leads = ReadLeads(sheet)
  /\ idx = 1
  /\ enriched = NoLead
  /\ reviews \in ReviewLists
  /\ msg = NoneVal
  /\ err = ""
  /\ log = <<Event("read_leads", 0, ""), Event("fetch", 1, "some")>>
  /\ outAtStart = out
  /\ processed = leads
  /\ lastW = NoWrite
  /\ repeated = FALSE
  /\ fetchArgs = <<<<"A">>>>
  /\ fx = NoFetch
  /\ writers = NoWriters

(***************************************************************************)
(* Actions                                                                 *)
(***************************************************************************)
\* variant: the error of one lead is recorded and the loop goes on
RaiseAndContinue(e) ==
  /\ pc' = "next"
  /\ err' = e

Raise(e) ==
  /\ pc' = "failed"
  /\ err' = e

\* main: asyncio.run(processor.process_multiple_leads(max_leads=5))
Start ==
  /\ pc = "idle"
  /\ pc' = "load"
  /\ UNCHANGED <<sheet, out, leads, idx, enriched, reviews, msg, err, budget, log,
                 outAtStart, processed, lastW, repeated>>
  /\ UNCHANGED <<fetchArgs, fx, writers>>

\* process_multiple_leads up to the loop: read_leads, the empty check
Load ==
  /\ pc = "load"
  /\ log' = Append(log, Event("read_leads", 0, ""))
  /\ \/ /\ Raise("RemoteServiceError")
        /\ UNCHANGED leads
     \/ /\ leads' = ReadLeads(sheet)
        /\ IF leads' = << >>
           THEN Raise("NoLeadsFound")
           ELSE pc' = "next" /\ UNCHANGED err
  /\ UNCHANGED <<sheet, out, idx, enriched, reviews, msg, budget, outAtStart, processed,
                 lastW, repeated>>
  /\ UNCHANGED <<fetchArgs, fx, writers>>

\* for lead in leads[:max_leads]: the next lead enters process_lead, or the
\* loop ends
NextLead ==
  /\ pc = "next"
  /\ IF idx < Len(Queue)
     THEN /\ idx' = idx + 1
          /\ pc' = "enrich"
          /\ enriched' = NoLead
          /\ reviews' = << >>
          /\ msg' = NoneVal
          /\ processed' = Append(processed, Queue[idx + 1])
     ELSE /\ pc' = "done"
          /\ UNCHANGED <<idx, enriched, reviews, msg, processed>>
  /\ UNCHANGED <<sheet, out, leads, err, budget, log, outAtStart, lastW, repeated>>
  /\ UNCHANGED <<fetchArgs, fx, writers>>

\* variant: the review fetch is attempted for every lead
SkipsEnrichmentNever(lead) == FALSE

\* variant: leads already in the output worksheet skip the review fetch too
SkipsEnrichmentProcessed(lead) ==
  Falsy(lead.id) \/ lead.id \in ProcessedIds(outAtStart)

\* if not lead.id: return lead
SkipsEnrichment(lead) == Falsy(lead.id)

\* variant: an empty review list is summarized like any other
NoReviewsNever(rv) == FALSE

\* if not reviews: return lead
NoReviews(rv) == rv = << >>

\* the argument of fetch_reviews: [lead.id]
PlaceIds(lead) == <<lead.id>>

\* lead_id = enriched_lead.id or ""
LeadId(lead) == OrElse(lead.id, "")

\* variant: process_lead writes the row before it generates the message
AfterEnrichWrite == "write"

\* process_lead: generate_personalized_message follows enrich_lead_with_reviews
AfterEnrich == "personalize"

\* enrich_lead_with_reviews up to the summarize call
Enrich ==
  /\ pc = "enrich"
  /\ IF SkipsEnrichment(CurLead)
     THEN /\ enriched' = CurLead
          /\ pc' = AfterEnrich
          /\ UNCHANGED <<reviews, err, log, fetchArgs>>
     ELSE \/ /\ log' = Append(log, Event("fetch", idx, ""))
             /\ fetchArgs' = Append(fetchArgs, PlaceIds(CurLead))
             /\ Raise("RemoteServiceError")
             /\ UNCHANGED <<enriched, reviews>>
          \/ \E items \in ItemLists :
               LET reviews_list == FetchReviews(PlaceIds(CurLead), items, max_reviews)
                   rv == IF reviews_list # << >> THEN reviews_list[1] ELSE << >>
               IN  /\ log' = Append(log, Event("fetch", idx, IF rv = << >> THEN "none" ELSE "some"))
                   /\ fetchArgs' = Append(fetchArgs, PlaceIds(CurLead))
                   /\ reviews' = rv
                   /\ IF NoReviews(rv)
                      THEN enriched' = CurLead /\ pc' = AfterEnrich
                      ELSE pc' = "summarize" /\ UNCHANGED enriched
                   /\ UNCHANGED err
  /\ UNCHANGED <<sheet, out, leads, idx, msg, budget, outAtStart, processed, lastW, repeated>>
  /\ UNCHANGED <<fx, writers>>

\* lead.model_copy(update={owner_name, review_summary})
Enriched(lead, summary) ==
  [lead EXCEPT !.owner_name = summary.owner_name,
               !.review_summary = summary.review_summary]

\* summarize_reviews and the rest of enrich_lead_with_reviews
Summarize ==
  /\ pc = "summarize"
  /\ IF ~SummarizeCalls(reviews)
     THEN /\ enriched' = Enriched(CurLead, SentinelSummary)
          /\ pc' = AfterEnrich
          /\ UNCHANGED <<err, log>>
     ELSE /\ log' = Append(log, Event("summarize", idx, ""))
          /\ \/ /\ Raise("RemoteServiceError")
                /\ UNCHANGED enriched
             \/ \E summary \in Summaries :
                  /\ enriched' = Enriched(CurLead, summary)
                  /\ pc' = AfterEnrich
                  /\ UNCHANGED err
  /\ UNCHANGED <<sheet, out, leads, idx, reviews, msg, budget, outAtStart, processed,
                 lastW, repeated>>
  /\ UNCHANGED <<fetchArgs, fx, writers>>

\* generate_personalized_message
Personalize ==
  /\ pc = "personalize"
  /\ \/ /\ log' = Append(log, Event("personalize", idx, ""))
        /\ Raise("RemoteServiceError")
        /\ UNCHANGED msg
     \/ \E dm \in Openers :
          /\ log' = Append(log, Event("personalize", idx, dm))
          /\ msg' = dm
          /\ pc' = "write"
          /\ UNCHANGED err
  /\ reviews' = << >>
  /\ UNCHANGED <<sheet, out, leads, idx, enriched, budget, outAtStart, processed,
                 lastW, repeated>>
  /\ UNCHANGED <<fetchArgs, fx, writers>>

\* the rest of process_lead: write_personalization when the lead has an id
Write ==
  /\ pc = "write"
  /\ LET lead_id == LeadId(enriched)
         business_name == OrElse(CurLead.business, "Unknown")
         p == MkPersonalization(enriched, business_name, msg)
     IN  IF lead_id # ""
         THEN /\ budget > 0
              /\ budget' = budget - 1
              /\ \/ /\ out' = WritePersonalization(out, p)
                    /\ log' = log \o <<Event("read", idx, ""), Event("write", idx, "")>>
                    /\ lastW' = RowData(p)
                    /\ repeated' = (lastW # NoWrite /\ lastW[1] = p.id)
                    /\ pc' = "next"
                    /\ UNCHANGED err
                 \/ \E t \in WriteFailures(out, p) :
                      /\ out' = t
                      /\ log' = log \o <<Event("read", idx, "")>> \o
                                  (IF t = out THEN << >> ELSE <<Event("write", idx, "failed")>>)
                      /\ Raise("RemoteServiceError")
                      /\ lastW' = NoWrite
                      /\ repeated' = FALSE
         ELSE /\ pc' = "next"
              /\ UNCHANGED <<out, err, budget, log, lastW, repeated>>
  /\ UNCHANGED <<sheet, leads, idx, enriched, reviews, msg, outAtStart, processed>>
  /\ UNCHANGED <<fetchArgs, fx, writers>>

\* the program is started again after a run has ended
Restart ==
  /\ pc \in {"done", "failed"}
  /\ pc' = "idle"
  /\ leads' = << >>
  /\ idx' = 0
  /\ enriched' = NoLead
  /\ reviews' = << >>
  /\ msg' = NoneVal
  /\ err' = ""
  /\ log' = << >>
  /\ outAtStart' = out
  /\ processed' = << >>
  /\ lastW' = NoWrite
  /\ repeated' = FALSE
  /\ fetchArgs' = << >>
  /\ UNCHANGED <<sheet, out, budget, fx, writers>>

(***************************************************************************)
(* A fetch_reviews call made on its own.  The backend holds counts[i]      *)
(* reviews for the i-th place id and its dataset yields them place by      *)
(* place, in the order of place_ids.                                       *)
(***************************************************************************)
PlaceId(i) == "P" \o ToString(i)

\* the text of the j-th review the backend holds for the i-th place id
ItemOf(i, j) == "p" \o ToString(i) \o "r" \o ToString(j)

Block(i, n) == [j \in 1..n |-> ItemOf(i, j)]

RECURSIVE Stream(_, _)
Stream(counts, n) ==
  IF n = 0 THEN << >> ELSE Stream(counts, n - 1) \o Block(n, counts[n])

FetchInputs ==
  UNION {{[phase |-> "call", place_ids |-> [i \in 1..n |-> PlaceId(i)],
           maxr |-> m, counts |-> c, results |-> << >>, jobs |-> 0, err |-> ""] :
            m \in 1..MaxPerLead, c \in [1..n -> 0..(MaxPerLead + 1)]} :
         n \in 0..MaxPlaces}

FetchSheets == {<<SrcHeaders, r>> : r \in LeadRows}

InitFetch ==
  /\ sheet \in FetchSheets
  /\ out = << >>
  /\ budget = 1
  /\ InitRun
  /\ fx \in FetchInputs
  /\ writers = NoWriters

FetchCall ==
  /\ pc = "idle"
  /\ fx.phase = "call"
  /\ IF RejectsEmpty(fx.place_ids)
     THEN fx' = [fx EXCEPT !.phase = "raised", !.err = "InvalidArgument"]
     ELSE \/ fx' = [fx EXCEPT !.phase = "raised", !.err = "RemoteServiceError",
                              !.jobs = 1]
          \/ fx' = [fx EXCEPT !.phase = "returned", !.jobs = 1,
                       !.results = FetchReviews(fx.place_ids,
                                     Stream(fx.counts, Len(fx.place_ids)), fx.maxr)]
  /\ UNCHANGED <<sheet, out, pc, leads, idx, enriched, reviews, msg, err, budget,
                 log, outAtStart, processed, lastW, repeated, fetchArgs, writers>>

(***************************************************************************)
(* Two write_personalization calls side by side on one worksheet, with no  *)
(* lock between them.  Each call is its worksheet requests in order:       *)
(* get_all_values, append_row(headers) when it read nothing, then one      *)
(* update_cell per column of the row it found or one append_row.           *)
(***************************************************************************)
WriterIds == {"A", "B"}

Writers == {1, 2}

WriterPayload(w, i) ==
  MkPersonalization([NoLead EXCEPT !.id = i, !.business = "Acme"], "Acme",
                    "dm" \o ToString(w))

InitRace ==
  /\ sheet = << >>
  /\ out \in OutTables
  /\ budget = 0
  /\ InitRun
  /\ fx = NoFetch
  /\ writers \in {[w \in Writers |->
                     [p |-> WriterPayload(w, ids[w]), pc |-> "read",
                      all_values |-> << >>, col |-> 0]] :
                   ids \in [Writers -> WriterIds]}

\* variant: the call searches the worksheet as it is now, not as it read it
SeenLatest(w) == WithHeaders(out)

\* the rows the call searches for its id: the all_values it read
Seen(w) == writers[w].all_values

\* worksheet after update_cell(r, c, v)
UpdateCell(tbl, r, c, v) ==
  [tbl EXCEPT ![r] =
     [k \in 1..Max2(Len(tbl[r]), c) |-> IF k = c THEN v ELSE tbl[r][k]]]

RaceFrame ==
  UNCHANGED <<sheet, pc, leads, idx, enriched, reviews, msg, err, budget, log,
              outAtStart, processed, lastW, repeated, fetchArgs, fx>>

\* all_values = worksheet.get_all_values()
WRead(w) ==
  /\ writers[w].pc = "read"
  /\ writers' = [writers EXCEPT ![w].all_values = out,
                                ![w].pc = IF out = << >> THEN "header" ELSE "write"]
  /\ UNCHANGED out
  /\ RaceFrame

\* worksheet.append_row(headers); all_values = [headers]
WHeader(w) ==
  /\ writers[w].pc = "header"
  /\ out' = Append(out, OutHeaders)
  /\ writers' = [writers EXCEPT ![w].all_values = <<OutHeaders>>, ![w].pc = "write"]
  /\ RaceFrame

\* one update_cell of the row found, or the append_row
WWrite(w) ==
  /\ writers[w].pc = "write"
  /\ LET existing_row == ExistingRow(Seen(w), writers[w].p.id)
         row_data == RowData(writers[w].p)
         c == writers[w].col + 1
     IN  IF existing_row # 0
         THEN /\ out' = UpdateCell(out, existing_row, c, row_data[c])
              /\ writers' = [writers EXCEPT ![w].col = c,
                               ![w].pc = IF c = Len(row_data) THEN "done" ELSE "write"]
         ELSE /\ out' = Append(out, row_data)
              /\ writers' = [writers EXCEPT ![w].pc = "done"]
  /\ RaceFrame

RaceNext == \E w \in Writers : WRead(w) \/ WHeader(w) \/ WWrite(w)

RunNext == Start \/ Load \/ NextLead \/ Enrich \/ Summarize \/ Personalize \/ Write

Next == RunNext \/ Restart

\* any number of runs, one after the other
Spec == Init /\ [][Next]_vars

\* one run over a long source worksheet; a run that can take a step does
\* runs over source worksheets of two leads
TwoLeadSpec == InitTwoLeads /\ [][Next]_vars

LongSpec == InitLong /\ [][RunNext]_vars /\ WF_vars(RunNext)

\* the steps of a run from the summarize_reviews call on
SummarizeNext == Summarize \/ Personalize \/ Write \/ NextLead

\* summarize_reviews on every review list up to the bound
SummarizeSpec == InitSummarize /\ [][SummarizeNext]_vars

FetchNext == FetchCall \/ RunNext

\* fetch_reviews called on its own with any list, and by a run of one lead
FetchSpec == InitFetch /\ [][FetchNext]_vars

RaceSpec == InitRace /\ [][RaceNext]_vars

(***************************************************************************)
(* Claims                                                                  *)
(***************************************************************************)
\* C1: after two consecutive write_personalization calls with the same
\* identifier, on any output worksheet, exactly one data row has that
\* identifier and it holds the values of the second call.
C1_IdempotentUpsert ==
  (lastW # NoWrite /\ repeated) =>
    \E r \in RowsWithId(out, lastW[1]) :
      /\ RowsWithId(out, lastW[1]) = {r}
      /\ out[r] = lastW

\* C2: no two data rows of the output worksheet hold the same identifier in
\* the identifier column, in any state reached from a worksheet without
\* duplicates by runs of the pipeline and the upserts they make.
C2_UniqueIdentifiers ==
  \A i \in ProcessedIds(out) : Cardinality(RowsWithId(out, i)) <= 1

\* positions in the log of the calls of one kind made for lead k of the run
EventsOf(op, k) == {i \in 1..Len(log) : log[i].op = op /\ log[i].k = k}

\* process_lead has returned for lead k of the run
Completed(k) == k < idx \/ (k = idx /\ pc \in {"next", "done"})

\* the work queue the dedup filter describes
DedupFilter(L, P) == SelectSeq(L, LAMBDA l : l.id # NoneVal /\ l.id \notin P)

\* every lead read in this run already has its identifier in the output
\* worksheet the run started from
AllProcessedAtStart ==
  /\ leads # << >>
  /\ \A k \in 1..Len(leads) : leads[k].id \in ProcessedIds(outAtStart)

FirstRunInputs ==
  /\ outAtStart = << >>
  /\ \A k \in 1..Len(leads) : leads[k].id # NoneVal
  /\ \A j, k \in 1..Len(leads) : j # k => leads[j].id # leads[k].id

\* the output worksheet is a header row and one data row for each of the
\* first n leads, each holding the opener the personalize call for that lead
\* returned
RowsForLeading(n) ==
  /\ Len(out) = n + 1
  /\ \A k \in 1..n :
       \E r \in RowsWithId(out, leads[k].id) :
         /\ RowsWithId(out, leads[k].id) = {r}
         /\ \E i \in EventsOf("personalize", k) : out[r][4] = log[i].arg

\* C5 as stated: a finished first run leaves one data row for each lead of
\* the source worksheet, holding that lead's opener.
C5_RowForEveryLead ==
  (pc = "done" /\ FirstRunInputs) => RowsForLeading(Len(leads))

\* C5 as amended: a first run ends (finished, or failed on a backend call),
\* and a finished first run leaves one data row for each of the first
\* max_leads leads, holding that lead's opener, and no other data row.
C5_FirstRunCompletes ==
  /\ <>(pc \in {"done", "failed"})
  /\ []((pc = "done" /\ FirstRunInputs) => RowsForLeading(Min2(Len(leads), max_leads)))

\* a finished first run that wrote max_leads rows from a longer source
\* worksheet
C5_Witness ==
  /\ pc = "done"
  /\ FirstRunInputs
  /\ Len(leads) > max_leads
  /\ Len(out) = max_leads + 1

\* C6 as stated: a finished run has processed every lead with a non-null
\* identifier that the output worksheet did not hold, however many there are.
C6_NoCountCap ==
  pc = "done" =>
    \A k \in 1..Len(leads) :
      (leads[k].id # NoneVal /\ leads[k].id \notin ProcessedIds(outAtStart)) =>
        \E j \in 1..Len(processed) : processed[j] = leads[k]

\* C6 as amended: a run never processes more than max_leads = 5 leads; a
\* finished run has made a personalize call for exactly the leads at
\* positions 1..5 of the source worksheet and none for a later lead.
C6_CapAtMaxLeads ==
  /\ Len(processed) <= max_leads
  /\ \A i \in 1..Len(log) : log[i].k <= max_leads
  /\ pc = "done" =>
       \A k \in 1..Len(leads) : (k <= max_leads) <=> (EventsOf("personalize", k) # {})

\* a finished run that left the sixth lead unprocessed
C6_Witness ==
  /\ pc = "done"
  /\ Len(leads) = max_leads + 1
  /\ Len(processed) = max_leads

\* C7: for a lead without identifier the run makes no review fetch, no
\* summarize call and no read or write of the output worksheet; it makes at
\* most one personalize call, exactly one once the lead is done, and the only
\* failure while the lead is in process_lead is that call raising.
C7_NullIdNotPersisted ==
  \A k \in 1..Len(processed) :
    processed[k].id = NoneVal =>
      /\ EventsOf("fetch", k) = {}
      /\ EventsOf("summarize", k) = {}
      /\ EventsOf("read", k) = {}
      /\ EventsOf("write", k) = {}
      /\ Cardinality(EventsOf("personalize", k)) <= 1
      /\ (k < idx \/ (k = idx /\ pc \in {"write", "next", "done"})) =>
           Cardinality(EventsOf("personalize", k)) = 1
      /\ (k = idx /\ pc = "failed") => log[Len(log)] = Event("personalize", k, "")
      /\ (k = idx /\ pc = "next" /\ Len(processed) = 1) => out = outAtStart

\* process_lead has returned for a lead without identifier
C7_Witness ==
  /\ pc = "next"
  /\ idx >= 1
  /\ processed[idx].id = NoneVal
  /\ msg \in Openers

\* lead k of the run has an identifier and its review fetch returned nothing
NoReviewLead(k) ==
  /\ processed[k].id # NoneVal
  /\ \E i \in EventsOf("fetch", k) : log[i].arg = "none"

\* C8: a lead with an identifier whose review fetch returns no reviews is
\* passed on unchanged, gets no summarize call, gets one personalize call and
\* one upsert once process_lead has returned, and its row is in the output
\* worksheet then.
C8_NoReviewsStillUpserted ==
  \A k \in 1..Len(processed) :
    NoReviewLead(k) =>
      /\ EventsOf("summarize", k) = {}
      /\ (k = idx /\ pc \in {"personalize", "write", "next"}) => enriched = processed[k]
      /\ Cardinality(EventsOf("personalize", k)) <= 1
      /\ Completed(k) =>
           /\ Cardinality(EventsOf("personalize", k)) = 1
           /\ Cardinality(EventsOf("write", k)) = 1
      /\ (k = idx /\ pc = "next") =>
           \E r \in 2..Len(out) : out[r][1] = processed[k].id /\ out[r][4] = msg

\* process_lead has returned for a lead whose review fetch returned nothing
C8_Witness ==
  /\ pc = "next"
  /\ idx >= 1
  /\ NoReviewLead(idx)

\* every review of the list has empty or absent text
AllTextEmpty(rs) == \A i \in 1..Len(rs) : rs[i] \in {NoneVal, ""}

\* each of the first five reviews of the list has empty or absent text
FirstFiveEmpty(rs) == \A i \in 1..Len(rs) : i <= 5 => rs[i] \in {NoneVal, ""}

\* the insight summarize_reviews returned is the sentinel
SentinelReturned ==
  /\ enriched.owner_name = "Unknown"
  /\ enriched.review_summary = "No reviews available"

\* C9 as stated: summarize_reviews returns the sentinel without a generation
\* call when every review has empty or absent text, and makes exactly one
\* generation call in every other case.
C9_FallbackAllEmpty ==
  (pc \in {"personalize", "failed"} /\ reviews # << >>) =>
    IF AllTextEmpty(reviews)
    THEN EventsOf("summarize", idx) = {} /\ SentinelReturned
    ELSE Cardinality(EventsOf("summarize", idx)) = 1

\* C9 as amended: summarize_reviews returns the sentinel without a
\* generation call when each of the first five reviews has empty or absent
\* text, and makes exactly one generation call in every other case.
C9_FallbackFirstFive ==
  (pc \in {"personalize", "failed"} /\ reviews # << >>) =>
    IF FirstFiveEmpty(reviews)
    THEN EventsOf("summarize", idx) = {} /\ SentinelReturned
    ELSE Cardinality(EventsOf("summarize", idx)) = 1

\* summarize_reviews has returned the sentinel for a list whose only text is
\* past the fifth review
C9_Witness ==
  /\ pc = "personalize"
  /\ Len(reviews) > 5
  /\ FirstFiveEmpty(reviews)
  /\ ~AllTextEmpty(reviews)
  /\ SentinelReturned

\* C10: for a lead with an identifier the owner name and review summary in
\* the personalize prompt are non-empty, and the owner written to the output
\* row is non-empty.
C10_InsightPopulated ==
  /\ (pc = "write" /\ enriched.id # NoneVal) =>
       /\ LeadInfo(enriched).owner_name \notin {NoneVal, ""}
       /\ LeadInfo(enriched).review_summary \notin {NoneVal, ""}
  /\ lastW # NoWrite => lastW[3] # ""

\* the reviews the backend holds for the i-th place id of the call
Held(i) == Block(i, fx.counts[i])

\* C11: fetch_reviews on a non-empty list returns one review list per place
\* id, each of at most max_reviews reviews, and a place for which the backend
\* holds more than max_reviews keeps exactly its first max_reviews while the
\* surplus appears in no returned list.
C11_OneCappedListPerId ==
  fx.phase = "returned" =>
    /\ Len(fx.results) = Len(fx.place_ids)
    /\ \A i \in 1..Len(fx.place_ids) :
         /\ Len(fx.results[i]) <= fx.maxr
         /\ fx.counts[i] > fx.maxr =>
              /\ fx.results[i] = Slice(Held(i), 0, fx.maxr)
              /\ \A j \in 1..Len(fx.results) : \A x \in 1..Len(fx.results[j]) :
                   \A y \in (fx.maxr + 1)..fx.counts[i] :
                     fx.results[j][x] # ItemOf(i, y)

\* C14: fetch_reviews on an empty list raises the argument error without a
\* backend job, and no run passes an empty list to fetch_reviews.
C14_EmptyListRejected ==
  /\ (fx.phase \in {"returned", "raised"} /\ fx.place_ids = << >>) =>
       (fx.phase = "raised" /\ fx.err = "InvalidArgument" /\ fx.jobs = 0)
  /\ \A i \in 1..Len(fetchArgs) : fetchArgs[i] # << >>

\* the call on the empty list has raised, and a run has fetched reviews
C14_Witness ==
  /\ fx.phase = "raised"
  /\ fx.place_ids = << >>
  /\ fetchArgs # << >>

\* both calls carry the same id and neither read a row holding it
BothMissed ==
  /\ writers[1].p.id = writers[2].p.id
  /\ \A w \in Writers :
       /\ writers[w].pc \in {"write", "done"}
       /\ ExistingRow(writers[w].all_values, writers[w].p.id) = 0

\* C12: when two unlocked write_personalization calls for one id have both
\* read the worksheet before either wrote its row, both append, and the
\* worksheet ends with a row from each call.
C12_RaceAppendsTwice ==
  (BothMissed /\ \A w \in Writers : writers[w].pc = "done") =>
    \E r1 \in 2..Len(out) : \E r2 \in 2..Len(out) :
      /\ r1 # r2
      /\ out[r1] = RowData(writers[1].p)
      /\ out[r2] = RowData(writers[2].p)

\* both calls are done and the identifier column holds A in two rows
C12_Witness ==
  /\ writers # NoWriters
  /\ \A w \in Writers : writers[w].pc = "done" /\ writers[w].p.id = "A"
  /\ BothMissed
  /\ IdCol(out[1]) = 1
  /\ Cardinality(RowsWithId(out, "A")) = 2

\* C13: a run over a source worksheet without data rows fails at read_leads
\* with the no-leads error: no review fetch, no generation call and no write
\* to the output worksheet has happened.
C13_EmptyTableFatal ==
  (Len(sheet) <= 1 /\ pc \notin {"idle", "load"}) =>
    /\ pc = "failed"
    /\ err \in {"NoLeadsFound", "RemoteServiceError"}
    /\ log = <<Event("read_leads", 0, "")>>
    /\ fetchArgs = << >>
    /\ out = outAtStart
    /\ lastW = NoWrite

\* read_leads has returned no lead from a worksheet holding only its header
C13_Witness ==
  /\ Len(sheet) = 1
  /\ pc = "failed"
  /\ err = "NoLeadsFound"

\* the calls made for lead k that have returned what process_lead needs
LeadFinished(k, j) ==
  /\ \E i \in 1..(j - 1) :
       log[i].op = "personalize" /\ log[i].k = k /\ log[i].arg \in Openers
  /\ LeadId(leads[k]) # "" =>
       \E i \in 1..(j - 1) : log[i] = Event("write", k, "")

\* C15: the leads are processed one at a time in the order of the source
\* worksheet: the calls in the log never go back to an earlier lead, every
\* call for a lead comes after the personalize call and the write of the lead
\* before it have returned, and the k-th lead to enter process_lead is the
\* k-th lead read.
C15_OneLeadAtATime ==
  /\ \A j \in 1..(Len(log) - 1) : log[j].k <= log[j + 1].k
  /\ \A j \in 1..Len(log) : log[j].k >= 2 => LeadFinished(log[j].k - 1, j)
  /\ Len(processed) = idx
  /\ \A k \in 1..idx : processed[k] = leads[k]

\* the run is over with calls logged for a second lead
C15_Witness ==
  /\ pc = "done"
  /\ idx >= 2
  /\ \E j \in 1..Len(log) : log[j].k = 2 /\ log[j].op = "fetch"
  /\ \E j \in 1..Len(log) : log[j] = Event("write", 1, "")

\* the row written for lead k is in the worksheet: its id and the opener
\* generated for it
RowRemains(k) ==
  \E r \in 2..Len(out) : \E j \in 1..Len(log) :
    /\ log[j].op = "personalize"
    /\ log[j].k = k
    /\ out[r][1] = LeadId(leads[k])
    /\ out[r][4] = log[j].arg

\* C16: once a backend call has raised while lead k is processed the run is
\* over with that error: the failed call is the last one logged, nothing is
\* logged for a later lead, no step follows, and the rows written for the
\* leads before k are still in the worksheet.
C16_FailureAbortsRun ==
  /\ [](err # "" =>
          /\ pc = "failed"
          /\ err \in {"RemoteServiceError", "NoLeadsFound"}
          /\ log # << >>
          /\ log[Len(log)].k = idx
          /\ \A j \in 1..Len(log) : log[j].k <= idx
          /\ \A k \in 1..(idx - 1) : LeadId(leads[k]) # "" => RowRemains(k))
  /\ [][pc # "failed"]_vars

\* a call has raised for the second lead while later leads are waiting
C16_Witness ==
  /\ pc = "failed"
  /\ idx = 2
  /\ Len(Queue) > 2
  /\ RowRemains(1)

\* positions in the log of the calls of one kind made for lead k
LogPos(op, k) == {j \in 1..Len(log) : log[j].op = op /\ log[j].k = k}

Precedes(S, T) == \A a \in S : \A b \in T : a < b

\* C17: for each lead the calls come in the order review fetch, summarize,
\* personalize, worksheet read, worksheet write, each at most once; the
\* worksheet is read or written only after the personalize call for that
\* lead has returned an opener, and no other step changes the worksheet, so
\* a lead whose summarize or personalize call raised leaves every row as it
\* was.
C17_StepOrder ==
  /\ [](\A k \in 1..idx :
          /\ \A op \in {"fetch", "summarize", "personalize", "read", "write"} :
               Cardinality(LogPos(op, k)) <= 1
          /\ Precedes(LogPos("fetch", k), LogPos("summarize", k))
          /\ Precedes(LogPos("fetch", k), LogPos("personalize", k))
          /\ Precedes(LogPos("summarize", k), LogPos("personalize", k))
          /\ Precedes(LogPos("personalize", k), LogPos("read", k))
          /\ Precedes(LogPos("read", k), LogPos("write", k))
          /\ (LogPos("read", k) \cup LogPos("write", k)) # {} =>
               \E j \in LogPos("personalize", k) : log[j].arg \in Openers)
  /\ [][out' # out =>
          /\ pc = "write"
          /\ msg \in Openers
          /\ \E j \in LogPos("personalize", idx) : log[j].arg = msg]_vars

\* the first lead went through all four steps and the personalize call of the
\* second lead, whose reviews were summarized, has raised
C17_Witness ==
  /\ pc = "failed"
  /\ idx = 2
  /\ \A op \in {"fetch", "summarize", "personalize", "read", "write"} :
       LogPos(op, 1) # {}
  /\ LogPos("summarize", 2) # {}
  /\ log[Len(log)] = Event("personalize", 2, "")

\* sheet rows that hold a header
HeaderRows(tbl) == {r \in 1..Len(tbl) : tbl[r] \in Layouts}

\* the write_personalization calls of this run that have returned
ReturnedWrites == {j \in 1..Len(log) : log[j].op = "write" /\ log[j].arg = ""}

\* C18: the first write_personalization on a worksheet without rows leaves
\* the header in row 1 and the record in row 2, and whatever calls have run,
\* a worksheet with rows has its one header row in row 1.
C18_SingleHeader ==
  /\ out # << >> => HeaderRows(out) = {1}
  /\ (outAtStart = << >> /\ Cardinality(ReturnedWrites) = 1 /\ lastW # NoWrite) =>
       out = <<OutHeaders, lastW>>

\* two records have been written to a worksheet that had no rows
C18_Witness ==
  /\ outAtStart = << >>
  /\ Cardinality(ReturnedWrites) = 2
  /\ Len(out) = 3
  /\ out[1] = OutHeaders

\* the sheet row a write for the lead in hand matches, 0 when there is none
MatchingRow ==
  LET S == RowsWithId(out, LeadId(enriched))
  IN  IF S = {} THEN 0 ELSE SetMin(S)

\* C19: no step removes a row or changes a row other than the one matching
\* the id being written; a write_personalization that returns has either
\* replaced the whole matching row in place, the row count unchanged, or,
\* with no matching row, appended one record below the rows already there
\* (below the new header when the worksheet had no rows).
C19_UpsertFrame ==
  [][/\ Len(out') >= Len(out)
     /\ \A r \in 1..Len(out) : r # MatchingRow => out'[r] = out[r]
     /\ (pc = "write" /\ pc' = "next" /\ LeadId(enriched) # "") =>
          IF MatchingRow # 0
          THEN /\ Len(out') = Len(out)
               /\ Len(out'[MatchingRow]) = Len(lastW')
               /\ out'[MatchingRow] = lastW'
          ELSE out' = (IF out = << >> THEN <<OutHeaders>> ELSE out) \o <<lastW'>>]_vars

\* a worksheet that held one record now holds two: one call replaced the
\* record in place and one appended
C19_Witness ==
  /\ Len(outAtStart) = 2
  /\ Len(out) = 3
  /\ Cardinality(ReturnedWrites) = 2
  /\ out[2] # outAtStart[2]
  /\ out[2][1] = outAtStart[2][1]

\* C20: when a run has processed two leads with the same id, the worksheet
\* ends with one row for that id, holding what the second lead's write
\* carried, and reviews were fetched and a message generated for both leads.
C20_SecondOverwritesFirst ==
  (/\ pc = "done"
   /\ Len(processed) = 2
   /\ LeadId(processed[1]) # ""
   /\ LeadId(processed[1]) = LeadId(processed[2])) =>
    /\ Cardinality(RowsWithId(out, LeadId(processed[2]))) = 1
    /\ \A r \in RowsWithId(out, LeadId(processed[2])) : out[r] = lastW
    /\ \A k \in 1..2 : LogPos("fetch", k) # {} /\ LogPos("personalize", k) # {}

====
